---- MODULE Spec2Model ----
(***************************************************************************)
(* Function Highlighter: the tree-sitter based function finder             *)
(* (src/src/parser.ts, class CppParser) and the editor glue that drives it *)
(* (src/src/extension.ts, second listing: activate, updateDecorations,     *)
(* clearDecorations, deactivate).                                          *)
(*                                                                         *)
(* Three specifications share the variables below.                         *)
(*   SpecParse  the walker on syntax trees with row spans and the full     *)
(*              field/type alphabet of the resolvers                       *)
(*   SpecWalk   the walker on larger trees over a small alphabet, for the  *)
(*              traversal order                                            *)
(*   SpecDecl   parseFunctions on C and C++ trees of nested declarators    *)
(*   SpecDecorate the decoration loop of updateDecorations, with the       *)
(*              ColorCalculator, on the records of one update              *)
(*   SpecLifecycle initialize, setLanguage and parseFunctions called in    *)
(*              any order on a fresh parser                                *)
(*   SpecSteps  parseFunctions step by step: the calls of findFunctions    *)
(*              and the iterations of the declarator loop                  *)
(*   SpecScope  parseFunctions on trees of namespaces, classes and methods *)
(*   SpecRepeat parseFunctions called again on one text, between changes   *)
(*              of the language                                            *)
(*   Spec       CppParser.setLanguage and updateDecorations under the      *)
(*              JavaScript event loop                                      *)
(***************************************************************************)
EXTENDS Integers, Sequences, FiniteSets, TLC

\* ---------------------------------------------------------------- bounds
MaxNodes == 3
MaxRow == 1
MaxWalkNodes == 5
MaxPending == 2

\* nodes of a tree that is parsed more than once, and calls of
\* parseFunctions on it
MaxRepeatNodes == 3
MaxCalls == 3

\* nodes of a tree of nested scopes
MaxScopeNodes == 5

\* nodes of a tree of nested declarators
MaxDeclNodes == 4

\* functions handed to the decoration loop of one update
MaxFunctions == 12

\* nodes of a tree walked step by step, and the iterations after which the
\* declarator loop is no longer followed
MaxStepNodes == 4
MaxIterations == 6

\* ------------------------------------------------------------- constants
\* null / undefined for language ids, grammars and handles
Null == "null"
\* null / undefined where the code expects a SyntaxNode
NoNode == 0

\* parser.ts:17-35
LANGUAGE_GRAMMAR_MAP ==
  [l \in {"c", "cpp", "python", "javascript", "typescript", "typescriptreact",
          "javascriptreact", "java", "rust", "go", "ruby", "php", "csharp",
          "bash", "json", "yaml", "css"} |->
     CASE l = "typescriptreact" -> "tsx"
       [] l = "javascriptreact" -> "javascript"
       [] l = "csharp" -> "c_sharp"
       [] OTHER -> l]

\* LANGUAGE_GRAMMAR_MAP[languageId], undefined (Null) for an unknown id
GrammarOf(languageId) ==
  IF languageId \in DOMAIN LANGUAGE_GRAMMAR_MAP
  THEN LANGUAGE_GRAMMAR_MAP[languageId] ELSE Null

JsFunctionTypes ==
  {"function_declaration", "function", "method_definition", "arrow_function"}

\* parser.ts:38-55
FUNCTION_NODE_TYPES ==
  [g \in {"c", "cpp", "python", "javascript", "typescript", "tsx", "java",
          "rust", "go", "ruby", "php", "c_sharp", "bash", "json", "yaml",
          "css"} |->
     CASE g \in {"c", "cpp", "python", "bash"} -> {"function_definition"}
       [] g \in {"javascript", "typescript", "tsx"} -> JsFunctionTypes
       [] g \in {"java", "c_sharp"} ->
            {"method_declaration", "constructor_declaration"}
       [] g = "rust" -> {"function_item"}
       [] g = "go" -> {"function_declaration", "method_declaration"}
       [] g = "ruby" -> {"method", "singleton_method"}
       [] g = "php" -> {"function_definition", "method_declaration"}
       [] OTHER -> {}]

\* FUNCTION_NODE_TYPES[grammarName] || []   (parser.ts:105)
functionNodeTypes(grammarName) ==
  IF grammarName \in DOMAIN FUNCTION_NODE_TYPES
  THEN FUNCTION_NODE_TYPES[grammarName] ELSE {}

\* ----------------------------------------------------------------- state
VARIABLES
  tree,               \* the syntax tree handed to the walker: a sequence of
                      \* nodes in document (pre-)order, node 1 the root
  parserLanguage,     \* grammar set on the underlying TreeSitter.Parser
  currentLanguageId,  \* CppParser.currentLanguageId
  functions,          \* the FunctionInfo[] returned by parseFunctions
  emitted,            \* ghost: the matched node behind each record
  parsed,             \* parseFunctions has returned
  parserObj,          \* CppParser.parser is set (initialize has completed)
  languageCache,      \* CppParser.languageCache: the grammar names it holds
  incompatible,       \* grammars whose .wasm has an ABI version that
                      \* Parser.setLanguage rejects with an exception
  callStack,          \* the calls of findFunctions in progress, outermost
                      \* first: the node and the index of its next child
  visits,             \* the nodes findFunctions was called on, in order
  current,            \* `current` of the loop in findFunctionName while the
                      \* loop runs, NoNode otherwise
  iterations,         \* iterations of that loop since it was last entered
  languageSet,        \* ghost: some setLanguage call has returned true
  activated,          \* activate: "no", "yes" (handlers registered), "failed";
                      \* "deactivated" once deactivate has run
  enabled,            \* functionHighlight.enabled
  disabledLanguages,  \* functionHighlight.disabledLanguages
  activeEditor,       \* vscode.window.activeTextEditor, by its document
  loading,            \* per document: updateDecorations calls suspended in
                      \* setLanguage at `await TreeSitter.Language.load`
  microtasks,         \* updateDecorations calls whose `await
                      \* parser.setLanguage` has settled, in queue order
  draining,           \* the microtask queue of the current turn is running
  decorationCache,    \* per document URI: decorationCache has an entry
  providerDocument,   \* functionTreeProvider.currentDocument
  lastParse,          \* ghost: what the last parseFunctions call ran with
  parseError,         \* what parseFunctions threw instead of returning
  returned,           \* ghost: <<language id, records>> of each return of
                      \* parseFunctions on the tree, in call order
  loadFailed,         \* ghost: since the active editor last changed, a
                      \* grammar load begun for its document has failed
  leaked,             \* since the active editor last changed, decoration
                      \* types were created for its document that are
                      \* neither disposed nor in decorationCache
  isDarkTheme,        \* isDarkColorTheme() as the decoration loop read it
  borderColors,       \* borderColor of each function the decoration loop
                      \* has handled, in order (index 0 first)
  lastDecorated       \* the function the loop handled last, with the lines
                      \* each of its gutter decoration types was set on

walkVars == <<callStack, visits, current, iterations>>
parseVars == <<tree, functions, emitted, parsed, parseError, returned,
               walkVars>>
parserVars == <<parserObj, languageCache, parserLanguage, currentLanguageId,
                incompatible, languageSet>>
extVars == <<activated, enabled, disabledLanguages, activeEditor, loading,
             microtasks, draining, decorationCache, providerDocument,
             lastParse, loadFailed, leaked>>
decorVars == <<isDarkTheme, borderColors, lastDecorated>>
vars == <<parseVars, parserVars, extVars, decorVars>>

\* ------------------------------------------------------------- documents
\* the open documents, by URI, and document.languageId of each
Docs == 1..4
DocLanguage == <<"c", "javascript", "javascriptreact", "plaintext">>
NoDoc == 0
NoParse == [document |-> NoDoc]
NoFunction == [index |-> -1]

\* grammars the documents above can ask for
DocGrammars == {GrammarOf(DocLanguage[d]) : d \in Docs} \ {Null}

ExtIdle ==
  /\ activated = "no"
  /\ enabled = TRUE
  /\ disabledLanguages = {}
  /\ activeEditor = NoDoc
  /\ loading = [d \in Docs |-> 0]
  /\ microtasks = <<>>
  /\ draining = FALSE
  /\ decorationCache = [d \in Docs |-> FALSE]
  /\ providerDocument = NoDoc
  /\ lastParse = NoParse
  /\ loadFailed = FALSE
  /\ leaked = FALSE
  /\ isDarkTheme = FALSE
  /\ borderColors = <<>>
  /\ lastDecorated = NoFunction
  /\ callStack = <<>>
  /\ visits = <<>>
  /\ current = NoNode
  /\ iterations = 0

\* ------------------------------------------------------------ SyntaxNode
Nodes == 1..Len(tree)

\* node.children, in order
children(node) ==
  LET ids == {i \in Nodes : tree[i].parent = node}
      RECURSIVE ordered(_)
      ordered(S) ==
        IF S = {} THEN <<>>
        ELSE LET m == CHOOSE x \in S : \A y \in S : x <= y
             IN <<m>> \o ordered(S \ {m})
  IN ordered(ids)

\* node.childForFieldName(field): the first child attached under that field
childForFieldName(node, field) ==
  LET c == children(node)
      hit == {i \in 1..Len(c) : tree[c[i]].field = field}
  IN IF hit = {} THEN NoNode
     ELSE c[CHOOSE i \in hit : \A j \in hit : i <= j]

\* first child whose type is in the given set, NoNode when there is none
firstChildOfType(node, types) ==
  LET c == children(node)
      hit == {i \in 1..Len(c) : tree[c[i]].type \in types}
  IN IF hit = {} THEN NoNode
     ELSE c[CHOOSE i \in hit : \A j \in hit : i <= j]

\* ------------------------------------------------------- getFunctionBody
\* getFunctionBody that scans the children's types before it reads the
\* `body` field
getFunctionBodyChildFirst(node, grammarName) ==
  LET bodyNode == childForFieldName(node, "body")
      jsChild == firstChildOfType(node, {"statement_block", "expression"})
  IN IF grammarName \in {"javascript", "typescript", "tsx"}
        /\ jsChild # NoNode
     THEN jsChild
     ELSE IF bodyNode # NoNode THEN bodyNode
     ELSE node

\* parser.ts:140-158
getFunctionBody(node, grammarName) ==
  LET bodyNode == childForFieldName(node, "body")
      jsChild == firstChildOfType(node, {"statement_block", "expression"})
  IN IF bodyNode # NoNode THEN bodyNode
     ELSE IF grammarName \in {"javascript", "typescript", "tsx"}
             /\ jsChild # NoNode
          THEN jsChild
          ELSE node

\* ------------------------------------------------------ findFunctionName
\* the while loop of parser.ts:173-193; NoNode when the loop is left by break
\* or because current became undefined
RECURSIVE declaratorLoop(_)
declaratorLoop(cur) ==
  IF cur = NoNode THEN NoNode
  ELSE IF tree[cur].type = "function_declarator"
  THEN LET identifier == childForFieldName(cur, "declarator")
       IN IF identifier = NoNode THEN NoNode
          ELSE IF tree[identifier].type = "identifier" THEN identifier
          ELSE declaratorLoop(identifier)
  ELSE IF tree[cur].type = "identifier" THEN cur
  ELSE IF tree[cur].type \in {"pointer_declarator", "reference_declarator"}
  THEN LET d == childForFieldName(cur, "declarator")
           c == children(cur)
       IN declaratorLoop(IF d # NoNode THEN d
                         ELSE IF Len(c) >= 2 THEN c[2] ELSE NoNode)
  ELSE NoNode

\* findFunctionName whose first test takes the `name` field whatever its type
findFunctionNameAnyName(node, grammarName) ==
  LET nameNode == childForFieldName(node, "name")
      fallback == firstChildOfType(node, {"identifier"})
  IN IF nameNode # NoNode THEN nameNode
     ELSE IF grammarName \in {"c", "cpp"}
     THEN LET declarator == childForFieldName(node, "declarator")
              found == declaratorLoop(declarator)
          IN IF declarator = NoNode THEN NoNode
             ELSE IF found # NoNode THEN found
             ELSE fallback
     ELSE IF grammarName \in {"python", "ruby", "java", "c_sharp", "rust", "go"}
     THEN nameNode
     ELSE fallback

\* parser.ts:160-227
findFunctionName(node, grammarName) ==
  LET nameNode == childForFieldName(node, "name")
      fallback == firstChildOfType(node, {"identifier"})
  IN IF nameNode # NoNode /\ tree[nameNode].type = "identifier" THEN nameNode
     ELSE IF grammarName \in {"c", "cpp"}
     THEN LET declarator == childForFieldName(node, "declarator")
              found == declaratorLoop(declarator)
          IN IF declarator = NoNode THEN NoNode
             ELSE IF found # NoNode THEN found
             ELSE fallback
     ELSE IF grammarName \in {"python", "ruby", "java", "c_sharp", "rust", "go"}
     THEN nameNode
     ELSE IF grammarName \in {"javascript", "typescript", "tsx"}
     THEN IF nameNode # NoNode THEN nameNode ELSE fallback
     ELSE fallback

\* -------------------------------------------------------- parseFunctions
\* FunctionInfo with the inclusive row span computed without the + 1
FunctionInfoExclusiveSpan(node, grammarName) ==
  LET nameNode == findFunctionName(node, grammarName)
      bodyNode == getFunctionBody(node, grammarName)
      startLine == tree[bodyNode].startRow
      endLine == tree[bodyNode].endRow
  IN [name |-> nameNode,
      startLine |-> startLine,
      endLine |-> endLine,
      lineCount |-> endLine - startLine,
      declarationLine |-> tree[node].startRow]

\* FunctionInfo whose declarationLine is the row the body starts on
FunctionInfoDeclarationAtBody(node, grammarName) ==
  LET nameNode == findFunctionName(node, grammarName)
      bodyNode == getFunctionBody(node, grammarName)
      startLine == tree[bodyNode].startRow
      endLine == tree[bodyNode].endRow
  IN [name |-> nameNode,
      startLine |-> startLine,
      endLine |-> endLine,
      lineCount |-> endLine - startLine + 1,
      declarationLine |-> startLine]

\* the record pushed at parser.ts:114-126; name is nameNode.text, the slice
\* of the source the name node covers, identified here by that node
FunctionInfo(node, grammarName) ==
  LET nameNode == findFunctionName(node, grammarName)
      bodyNode == getFunctionBody(node, grammarName)
      startLine == tree[bodyNode].startRow
      endLine == tree[bodyNode].endRow
  IN [name |-> nameNode,
      startLine |-> startLine,
      endLine |-> endLine,
      lineCount |-> endLine - startLine + 1,
      declarationLine |-> tree[node].startRow]

\* pushes with the test on nameNode left out
pushesUnnamed(node, grammarName) ==
  /\ tree[node].type \in functionNodeTypes(grammarName)
  /\ getFunctionBody(node, grammarName) # NoNode

\* the test of parser.ts:109-113 deciding whether a record is pushed
pushes(node, grammarName) ==
  /\ tree[node].type \in functionNodeTypes(grammarName)
  /\ getFunctionBody(node, grammarName) # NoNode
  /\ findFunctionName(node, grammarName) # NoNode

\* findFunctions that descends only below nodes that are no candidates
RECURSIVE findFunctionsTopLevel(_, _)
findFunctionsTopLevel(node, grammarName) ==
  LET c == children(node)
      RECURSIVE each(_)
      each(i) == IF i > Len(c) THEN <<>>
                 ELSE findFunctionsTopLevel(c[i], grammarName) \o each(i + 1)
  IN IF tree[node].type \in functionNodeTypes(grammarName)
     THEN (IF pushes(node, grammarName) THEN <<node>> ELSE <<>>)
     ELSE each(1)

\* findFunctions that pushes a node's record after those of its children
RECURSIVE findFunctionsPostOrder(_, _)
findFunctionsPostOrder(node, grammarName) ==
  LET c == children(node)
      RECURSIVE each(_)
      each(i) == IF i > Len(c) THEN <<>>
                 ELSE findFunctionsPostOrder(c[i], grammarName) \o each(i + 1)
  IN each(1) \o (IF pushes(node, grammarName) THEN <<node>> ELSE <<>>)

\* the closure findFunctions of parser.ts:107-134: the nodes for which a
\* record is pushed, in the order of the pushes
RECURSIVE findFunctions(_, _)
findFunctions(node, grammarName) ==
  LET c == children(node)
      RECURSIVE each(_)
      each(i) == IF i > Len(c) THEN <<>>
                 ELSE findFunctions(c[i], grammarName) \o each(i + 1)
  IN (IF pushes(node, grammarName) THEN <<node>> ELSE <<>>) \o each(1)

\* ---------------------------------------------- the tree under the walker
RECURSIVE isAncestor(_, _)
isAncestor(a, n) ==
  IF n = NoNode THEN FALSE
  ELSE IF tree[n].parent = a THEN TRUE
  ELSE isAncestor(a, tree[n].parent)

\* (type, field) pairs the grammars produce; "" is a child under no field
NodeKinds ==
  ({"function_definition", "arrow_function", "identifier", "statement_block",
    "other"} \X {""})
  \cup ({"identifier", "other"} \X {"name"})
  \cup ({"statement_block"} \X {"body"})
  \cup ({"identifier", "function_declarator"} \X {"declarator"})

WalkKinds ==
  {<<"function_definition", "">>, <<"identifier", "name">>,
   <<"identifier", "">>, <<"other", "">>}

ParseLanguages == {"c", "python", "javascript"}
WalkLanguages == {"c", "php"}

\* tree-sitter appends nodes in document order: a new node hangs under the
\* last node or one of its ancestors, and its rows lie inside its parent's
AddNodeOf(kinds, maxNodes, rows) ==
  /\ ~parsed
  /\ Len(tree) < maxNodes
  /\ \E p \in Nodes, k \in kinds :
       /\ p = Len(tree) \/ isAncestor(p, Len(tree))
       /\ \E s \in tree[p].startRow..tree[p].endRow :
            \E e \in s..tree[p].endRow :
              /\ rows \/ (s = tree[p].startRow /\ e = tree[p].endRow)
              /\ tree' = Append(tree, [type |-> k[1], field |-> k[2],
                                       parent |-> p, startRow |-> s,
                                       endRow |-> e])
  /\ UNCHANGED <<functions, emitted, parsed, parseError, returned,
                 walkVars, parserVars, extVars, decorVars>>

AddNode == AddNodeOf(NodeKinds, MaxNodes, TRUE)

AddWalkNode == AddNodeOf(WalkKinds, MaxWalkNodes, FALSE)

\* what a call of parseFunctions that ends in an exception threw: the
\* engine's own error when parser.parse throws, a TypeError when it hands
\* back null and `tree.rootNode` is read (parser.ts:100-101)
ParseErrors == {"Parsing failed", "TypeError"}

\* parseFunctions whose `functions` array outlives the call
parseFunctionsAccumulating ==
  /\ parserObj /\ currentLanguageId # Null
  /\ tree # <<>>
  /\ LET grammarName == GrammarOf(currentLanguageId)
         found == findFunctions(1, grammarName)
     IN /\ emitted' = emitted \o found
        /\ functions' = functions \o
                          [i \in 1..Len(found) |->
                             FunctionInfo(found[i], grammarName)]
        /\ returned' = Append(returned, <<currentLanguageId, functions'>>)
        /\ parsed' = TRUE
        /\ parseError' = "none"
  /\ UNCHANGED <<tree, walkVars, parserVars, extVars, decorVars>>

\* parser.ts:95-138: one call of parseFunctions; parseError is what the
\* call threw, "none" when it returned. An empty `tree` stands for a source
\* text the external parser produced no tree for.
parseFunctions ==
  /\ IF ~parserObj \/ currentLanguageId = Null
     THEN /\ parseError' = "Parser not initialized"
          /\ UNCHANGED <<functions, emitted, parsed, returned>>
     ELSE IF tree = <<>>
     THEN /\ \E e \in ParseErrors : parseError' = e
          /\ UNCHANGED <<functions, emitted, parsed, returned>>
     ELSE LET grammarName == GrammarOf(currentLanguageId)
              found == findFunctions(1, grammarName)
          IN /\ emitted' = found
             /\ functions' = [i \in 1..Len(found) |->
                                FunctionInfo(found[i], grammarName)]
             /\ returned' =
                  Append(returned, <<currentLanguageId, functions'>>)
             /\ parsed' = TRUE
             /\ parseError' = "none"
  /\ UNCHANGED <<tree, walkVars, parserVars, extVars, decorVars>>

\* the first call of parseFunctions on the text; a call that threw is not
\* repeated
ParseFunctions == ~parsed /\ parseError = "none" /\ parseFunctions

InitTree(kinds, languages, lastRow) ==
  /\ \/ \E k \in kinds :
          tree = << [type |-> k[1], field |-> "", parent |-> NoNode,
                     startRow |-> 0, endRow |-> lastRow] >>
     \/ tree = <<>>
  /\ \E l \in languages :
       /\ currentLanguageId = l
       /\ parserLanguage = GrammarOf(l)
       /\ languageCache = {GrammarOf(l)}
  /\ parserObj = TRUE
  /\ languageSet = TRUE
  /\ incompatible = {}
  /\ ExtIdle
  /\ functions = <<>>
  /\ emitted = <<>>
  /\ parsed = FALSE
  /\ parseError = "none"
  /\ returned = <<>>

InitParse == InitTree({k \in NodeKinds : k[2] = ""}, ParseLanguages, MaxRow)

NextParse == AddNode \/ ParseFunctions

SpecParse == InitParse /\ [][NextParse]_vars

InitWalk == InitTree({k \in WalkKinds : k[2] = ""}, WalkLanguages, 0)

NextWalk == AddWalkNode \/ ParseFunctions

SpecWalk == InitWalk /\ [][NextWalk]_vars

\* ------------------------------------------------ CppParser.setLanguage
\* isCached for a parser that never consults its cache
isCachedNever(grammarName) == FALSE

\* parser.ts:74
isCached(grammarName) == grammarName \in languageCache

\* setLanguageCall whose cached path sets the grammar on the parser and
\* leaves currentLanguageId as it was
setLanguageCallKeepsId(languageId) ==
  LET grammarName == GrammarOf(languageId)
      same == [languageCache |-> languageCache,
               parserLanguage |-> parserLanguage,
               currentLanguageId |-> currentLanguageId]
  IN IF grammarName = Null
     THEN [pc |-> "return", result |-> "false"] @@ same
     ELSE IF isCached(grammarName)
     THEN IF grammarName \in incompatible \/ ~parserObj
          THEN [pc |-> "throw", result |-> "throw"] @@ same
          ELSE [pc |-> "return", result |-> "true",
                languageCache |-> languageCache,
                parserLanguage |-> grammarName,
                currentLanguageId |-> currentLanguageId]
     ELSE [pc |-> "await", result |-> "pending"] @@ same

\* setLanguageCall that forgets the current language when asked for an
\* unknown one
setLanguageCallResetsOnUnknown(languageId) ==
  LET grammarName == GrammarOf(languageId)
      same == [languageCache |-> languageCache,
               parserLanguage |-> parserLanguage,
               currentLanguageId |-> currentLanguageId]
  IN IF grammarName = Null
     THEN [pc |-> "return", result |-> "false",
           languageCache |-> languageCache,
           parserLanguage |-> parserLanguage,
           currentLanguageId |-> Null]
     ELSE IF isCached(grammarName)
     THEN IF grammarName \in incompatible \/ ~parserObj
          THEN [pc |-> "throw", result |-> "throw"] @@ same
          ELSE [pc |-> "return", result |-> "true",
                languageCache |-> languageCache,
                parserLanguage |-> grammarName,
                currentLanguageId |-> languageId]
     ELSE [pc |-> "await", result |-> "pending"] @@ same

\* parser.ts:67-84, from the call to the first of: return, exception thrown
\* by this.parser.setLanguage, suspension at `await Language.load`
setLanguageCall(languageId) ==
  LET grammarName == GrammarOf(languageId)
      same == [languageCache |-> languageCache,
               parserLanguage |-> parserLanguage,
               currentLanguageId |-> currentLanguageId]
  IN IF grammarName = Null
     THEN [pc |-> "return", result |-> "false"] @@ same
     ELSE IF isCached(grammarName)
     THEN IF grammarName \in incompatible \/ ~parserObj
          THEN [pc |-> "throw", result |-> "throw"] @@ same
          ELSE [pc |-> "return", result |-> "true",
                languageCache |-> languageCache,
                parserLanguage |-> grammarName,
                currentLanguageId |-> languageId]
     ELSE [pc |-> "await", result |-> "pending"] @@ same

\* setLanguageResume that records the language id before it knows whether
\* the load succeeded
setLanguageResumeEagerId(languageId, loaded) ==
  LET grammarName == GrammarOf(languageId)
  IN IF ~loaded
     THEN [result |-> "false",
           languageCache |-> languageCache,
           parserLanguage |-> parserLanguage,
           currentLanguageId |-> languageId]
     ELSE IF grammarName \in incompatible \/ ~parserObj
     THEN [result |-> "false",
           languageCache |-> languageCache \cup {grammarName},
           parserLanguage |-> parserLanguage,
           currentLanguageId |-> currentLanguageId]
     ELSE [result |-> "true",
           languageCache |-> languageCache \cup {grammarName},
           parserLanguage |-> grammarName,
           currentLanguageId |-> languageId]

\* setLanguageResume that forgets the language set before when the load
\* fails
setLanguageResumeClearsOnFailure(languageId, loaded) ==
  LET grammarName == GrammarOf(languageId)
  IN IF ~loaded
     THEN [result |-> "false",
           languageCache |-> languageCache,
           parserLanguage |-> parserLanguage,
           currentLanguageId |-> Null]
     ELSE IF grammarName \in incompatible \/ ~parserObj
     THEN [result |-> "false",
           languageCache |-> languageCache \cup {grammarName},
           parserLanguage |-> parserLanguage,
           currentLanguageId |-> currentLanguageId]
     ELSE [result |-> "true",
           languageCache |-> languageCache \cup {grammarName},
           parserLanguage |-> grammarName,
           currentLanguageId |-> languageId]

\* parser.ts:84-92, from the settling of Language.load to the return
setLanguageResume(languageId, loaded) ==
  LET grammarName == GrammarOf(languageId)
  IN IF ~loaded
     THEN [result |-> "false",
           languageCache |-> languageCache,
           parserLanguage |-> parserLanguage,
           currentLanguageId |-> currentLanguageId]
     ELSE IF grammarName \in incompatible \/ ~parserObj
     THEN [result |-> "false",
           languageCache |-> languageCache \cup {grammarName},
           parserLanguage |-> parserLanguage,
           currentLanguageId |-> currentLanguageId]
     ELSE [result |-> "true",
           languageCache |-> languageCache \cup {grammarName},
           parserLanguage |-> grammarName,
           currentLanguageId |-> languageId]

\* ------------------------------------------------------- declarators
\* node types and fields of a C or C++ function definition and the
\* declarators nested in it
DeclKinds ==
  {<<"function_definition", "">>, <<"identifier", "">>,
   <<"function_declarator", "declarator">>,
   <<"pointer_declarator", "declarator">>,
   <<"array_declarator", "declarator">>,
   <<"identifier", "declarator">>}

AddDeclNode == AddNodeOf(DeclKinds, MaxDeclNodes, FALSE)

InitDecl == InitTree({k \in DeclKinds : k[2] = ""}, {"c", "cpp"}, 0)

NextDecl == AddDeclNode \/ ParseFunctions

SpecDecl == InitDecl /\ [][NextDecl]_vars

\* --------------------------------------------------- enclosing scopes
\* node types and fields of a C# tree of namespaces, classes and methods
ScopeKinds ==
  {<<"namespace_declaration", "">>, <<"class_declaration", "">>,
   <<"method_declaration", "">>, <<"identifier", "name">>}

AddScopeNode == AddNodeOf(ScopeKinds, MaxScopeNodes, FALSE)

InitScope == InitTree({k \in ScopeKinds : k[2] = ""}, {"csharp"}, 0)

NextScope == AddScopeNode \/ ParseFunctions

SpecScope == InitScope /\ [][NextScope]_vars

\* func.className as FunctionTreeProvider.createRootItems reads it
\* (part_002:238): the property of the record, undefined when the record
\* has none
funcClassName(func) ==
  IF "className" \in DOMAIN func THEN func.className ELSE NoNode

\* --------------------------------------------- repeated parseFunctions
\* parser.ts:67-79: setLanguage for another language whose grammar is cached
SetCachedLanguage ==
  /\ \E languageId \in WalkLanguages \ {currentLanguageId} :
       LET r == setLanguageCall(languageId)
       IN /\ r.pc = "return"
          /\ languageCache' = r.languageCache
          /\ parserLanguage' = r.parserLanguage
          /\ currentLanguageId' = r.currentLanguageId
          /\ languageSet' = (languageSet \/ r.result = "true")
  /\ UNCHANGED <<decorVars, parseVars, parserObj, incompatible, extVars>>

\* a further call of parseFunctions on the same text
ParseFunctionsAgain ==
  /\ parsed
  /\ parseError = "none"
  /\ Len(returned) < MaxCalls
  /\ parseFunctions

AddRepeatNode == AddNodeOf(WalkKinds, MaxRepeatNodes, FALSE)

\* a parser that has loaded every grammar of WalkLanguages and has one of
\* them set
InitRepeat ==
  /\ \E k \in {w \in WalkKinds : w[2] = ""} :
       tree = << [type |-> k[1], field |-> "", parent |-> NoNode,
                  startRow |-> 0, endRow |-> 0] >>
  /\ \E l \in WalkLanguages :
       /\ currentLanguageId = l
       /\ parserLanguage = GrammarOf(l)
  /\ languageCache = {GrammarOf(l) : l \in WalkLanguages}
  /\ parserObj = TRUE
  /\ languageSet = TRUE
  /\ incompatible = {}
  /\ ExtIdle
  /\ functions = <<>>
  /\ emitted = <<>>
  /\ parsed = FALSE
  /\ parseError = "none"
  /\ returned = <<>>

NextRepeat ==
  \/ AddRepeatNode
  \/ ParseFunctions
  \/ SetCachedLanguage
  \/ ParseFunctionsAgain

SpecRepeat == InitRepeat /\ [][NextRepeat]_vars

\* ------------------------------------------------------------ extension
\* extension.ts:303-309, on a given value of decorationCache
clearDecorations(cache, documentUri) ==
  [cache EXCEPT ![documentUri] = FALSE]

pending ==
  Len(microtasks) +
  loading[1] + loading[2] + loading[3] + loading[4]

\* extension.ts:311-335: updateDecorations from its call to its first
\* suspension or its return, under configuration (en, dis) and starting from
\* the value cache of decorationCache
updateDecorations(document, en, dis, cache) ==
  LET languageId == DocLanguage[document]
      r == setLanguageCall(languageId)
  IN IF ~en \/ languageId \in dis
     THEN /\ decorationCache' = clearDecorations(cache, document)
          /\ UNCHANGED <<languageCache, parserLanguage,
                         currentLanguageId, languageSet,
                         loading, microtasks>>
     ELSE /\ pending < MaxPending
          /\ decorationCache' = cache
          /\ languageCache' = r.languageCache
          /\ parserLanguage' = r.parserLanguage
          /\ currentLanguageId' = r.currentLanguageId
          /\ languageSet' = (languageSet \/ r.result = "true")
          /\ IF r.pc = "await"
             THEN /\ loading' = [loading EXCEPT ![document] = @ + 1]
                  /\ UNCHANGED microtasks
             ELSE /\ microtasks' =
                       Append(microtasks, [document |-> document,
                                           result |-> r.result,
                                           load |-> "none"])
                  /\ UNCHANGED loading

\* extension.ts:204-289: activate. parser.initialize either completes, and
\* the handlers are registered and the active editor decorated, or throws
Activate ==
  /\ activated = "no"
  /\ \/ /\ activated' = "yes"
        /\ parserObj' = TRUE
        /\ IF activeEditor # NoDoc
           THEN updateDecorations(activeEditor, enabled, disabledLanguages,
                                  decorationCache)
           ELSE UNCHANGED <<languageCache, parserLanguage,
                            currentLanguageId, languageSet,
                            loading, microtasks, decorationCache>>
     \/ /\ activated' = "failed"
        /\ UNCHANGED <<parserObj, languageCache, parserLanguage,
                       currentLanguageId, languageSet, loading, microtasks,
                       decorationCache>>
  /\ UNCHANGED <<decorVars,
                 parseVars, incompatible, enabled, disabledLanguages,
                 activeEditor, draining, providerDocument, lastParse,
                 loadFailed, leaked>>

\* The host's emitters call the listeners synchronously. Events delivered in
\* one turn of the event loop run their handlers back to back; the
\* continuations those handlers queued behind an `await` run after the last
\* of them, and no handler starts while that queue is running.
hostMayDispatch == ~draining

\* extension.ts:253-259; without a listener yet the editor just changes
ChangeActiveTextEditor ==
  /\ hostMayDispatch
  /\ \E editor \in (Docs \cup {NoDoc}) \ {activeEditor} :
       /\ activeEditor' = editor
       /\ IF activated = "yes" /\ editor # NoDoc
          THEN updateDecorations(editor, enabled, disabledLanguages,
                                 decorationCache)
          ELSE UNCHANGED <<languageCache, parserLanguage,
                           currentLanguageId, languageSet,
                           loading, microtasks, decorationCache>>
  /\ loadFailed' = FALSE
  /\ leaked' = FALSE
  /\ UNCHANGED <<decorVars,
                 parseVars, parserObj, incompatible, activated, enabled,
                 disabledLanguages, draining, providerDocument, lastParse>>

\* extension.ts:262-269 (and the refreshFunctions command, 243-250): an edit
\* of the active editor's document
ChangeTextDocument ==
  /\ hostMayDispatch
  /\ activated = "yes"
  /\ activeEditor # NoDoc
  /\ updateDecorations(activeEditor, enabled, disabledLanguages,
                       decorationCache)
  /\ UNCHANGED <<decorVars,
                 parseVars, parserObj, incompatible, activated, enabled,
                 disabledLanguages, activeEditor, draining, providerDocument,
                 lastParse, loadFailed, leaked>>

\* the languages functionHighlight.disabledLanguages ranges over here
DisabledLanguageSets == {{}, {"c"}}

\* extension.ts:272-283: a change of the functionHighlight settings
ChangeConfiguration ==
  /\ hostMayDispatch
  /\ \E en \in BOOLEAN, dis \in DisabledLanguageSets :
       /\ <<en, dis>> # <<enabled, disabledLanguages>>
       /\ enabled' = en
       /\ disabledLanguages' = dis
       /\ IF activated = "yes" /\ activeEditor # NoDoc
          THEN updateDecorations(activeEditor, en, dis,
                  clearDecorations(decorationCache, activeEditor))
          ELSE UNCHANGED <<languageCache, parserLanguage,
                           currentLanguageId, languageSet,
                           loading, microtasks, decorationCache>>
  /\ UNCHANGED <<decorVars,
                 parseVars, parserObj, incompatible, activated, activeEditor,
                 draining, providerDocument, lastParse, loadFailed, leaked>>

\* parser.ts:84-92 run when Language.load settles, in a turn of its own; the
\* caller's continuation is queued behind it
LoadSettles ==
  /\ microtasks = <<>>
  /\ \E document \in Docs, loaded \in BOOLEAN :
       /\ loading[document] > 0
       /\ LET r == setLanguageResume(DocLanguage[document], loaded)
          IN /\ languageCache' = r.languageCache
             /\ parserLanguage' = r.parserLanguage
             /\ currentLanguageId' = r.currentLanguageId
             /\ languageSet' = (languageSet \/ r.result = "true")
             /\ microtasks' =
                  << [document |-> document, result |-> r.result,
                      load |-> IF loaded THEN "ok" ELSE "failed"] >>
       /\ loading' = [loading EXCEPT ![document] = @ - 1]
       /\ loadFailed' = (loadFailed \/ (~loaded /\ document = activeEditor))
  /\ draining' = TRUE
  /\ UNCHANGED <<decorVars,
                 parseVars, parserObj, incompatible, activated, enabled,
                 disabledLanguages, activeEditor, decorationCache,
                 providerDocument, lastParse, leaked>>

\* how the try block of updateDecorations (extension.ts:345-507) can end:
\* parseFunctions throws; it finds no function; every decoration is created
\* and cached; a decoration type or gutter icon cannot be created
\* (fs.writeFileSync, extension.ts:510-584) part-way through the loop
TryOutcomes == {"parse throws", "no functions", "decorated",
                "creation throws"}

\* extension.ts:335-508: updateDecorations from the settling of `await
\* parser.setLanguage` to its end. The text of the document decides whether
\* parseFunctions finds a function; a grammar without function node types
\* finds none. `await parser.setLanguage` stands before the try block, so
\* an exception of setLanguage ends the call there; an exception inside the
\* try block is logged, and the decoration types created before it are in
\* no cache entry.
ResumeUpdateDecorations ==
  /\ microtasks # <<>>
  /\ LET call == Head(microtasks)
         document == call.document
         cleared == clearDecorations(decorationCache, document)
     IN IF call.result = "throw"
        THEN UNCHANGED <<decorationCache, providerDocument, lastParse,
                         leaked>>
        ELSE IF call.result = "false"
        THEN /\ decorationCache' = cleared
             /\ UNCHANGED <<providerDocument, lastParse, leaked>>
        ELSE IF ~parserObj \/ currentLanguageId = Null
        THEN /\ decorationCache' = cleared
             /\ UNCHANGED <<providerDocument, lastParse, leaked>>
        ELSE /\ lastParse' = [document |-> document,
                              parserLanguage |-> parserLanguage,
                              currentLanguageId |-> currentLanguageId]
             /\ \E outcome \in TryOutcomes :
                  /\ outcome \in {"decorated", "creation throws"} =>
                       functionNodeTypes(GrammarOf(currentLanguageId)) # {}
                  /\ CASE outcome = "parse throws" ->
                            /\ decorationCache' = cleared
                            /\ UNCHANGED <<providerDocument, leaked>>
                       [] outcome = "no functions" ->
                            /\ providerDocument' = NoDoc
                            /\ decorationCache' = cleared
                            /\ UNCHANGED leaked
                       [] outcome = "decorated" ->
                            /\ providerDocument' = document
                            /\ decorationCache' =
                                 [cleared EXCEPT ![document] = TRUE]
                            /\ UNCHANGED leaked
                       [] outcome = "creation throws" ->
                            /\ providerDocument' = document
                            /\ decorationCache' = cleared
                            /\ \E created \in BOOLEAN :
                                 leaked' =
                                   (leaked \/ (created /\
                                                document = activeEditor))
  /\ microtasks' = Tail(microtasks)
  /\ draining' = (Tail(microtasks) # <<>>)
  /\ UNCHANGED <<decorVars, parseVars, parserVars, activated, enabled,
                 disabledLanguages, activeEditor, loading, loadFailed>>

\* extension.ts:586-598: deactivate disposes every decoration type held in
\* decorationCache and empties it. The host then disposes the
\* subscriptions, so no handler runs any more; calls of updateDecorations
\* suspended in setLanguage stay pending and resume when their load settles.
Deactivate ==
  /\ hostMayDispatch
  /\ activated = "yes"
  /\ activated' = "deactivated"
  /\ decorationCache' = [d \in Docs |-> FALSE]
  /\ UNCHANGED <<decorVars, parseVars, parserVars, enabled,
                 disabledLanguages, activeEditor, loading, microtasks,
                 draining, providerDocument, lastParse, loadFailed, leaked>>

\* state after construction: new CppParser(), nothing activated yet
Init ==
  /\ tree = <<>>
  /\ functions = <<>>
  /\ emitted = <<>>
  /\ parsed = FALSE
  /\ parseError = "none"
  /\ returned = <<>>
  /\ parserObj = FALSE
  /\ languageCache = {}
  /\ parserLanguage = Null
  /\ currentLanguageId = Null
  /\ languageSet = FALSE
  /\ incompatible \in SUBSET {"javascript"}
  /\ ExtIdle

Next ==
  \/ Activate
  \/ ChangeActiveTextEditor
  \/ ChangeTextDocument
  \/ ChangeConfiguration
  \/ LoadSettles
  \/ ResumeUpdateDecorations
  \/ Deactivate

Spec == Init /\ [][Next]_vars

\* ------------------------------------------ parseFunctions step by step
\* node types and fields of a C function definition, its declarators and
\* children under no field
StepKinds ==
  {<<"function_definition", "">>, <<"identifier", "">>,
   <<"function_declarator", "declarator">>,
   <<"pointer_declarator", "declarator">>,
   <<"identifier", "declarator">>}

\* one iteration of the loop that falls back to the pointer declarator
\* itself when it has no `declarator` field
declaratorStepOnItself(cur) ==
  LET type == tree[cur].type
      identifier == childForFieldName(cur, "declarator")
      break == [exit |-> TRUE, found |-> NoNode, next |-> NoNode]
  IN IF type = "function_declarator"
     THEN IF identifier = NoNode THEN break
          ELSE IF tree[identifier].type = "identifier"
          THEN [exit |-> TRUE, found |-> identifier, next |-> NoNode]
          ELSE [exit |-> FALSE, found |-> NoNode, next |-> identifier]
     ELSE IF type = "identifier"
     THEN [exit |-> TRUE, found |-> cur, next |-> NoNode]
     ELSE IF type \in {"pointer_declarator", "reference_declarator"}
     THEN LET n == IF identifier # NoNode THEN identifier ELSE cur
          IN [exit |-> n = NoNode, found |-> NoNode, next |-> n]
     ELSE break

\* parser.ts:174-192: one iteration of the while loop on `current`, with
\* the loop test that follows it: whether the loop is left, the node it
\* returned if it returned one, and the next `current` otherwise
declaratorStep(cur) ==
  LET type == tree[cur].type
      identifier == childForFieldName(cur, "declarator")
      c == children(cur)
      break == [exit |-> TRUE, found |-> NoNode, next |-> NoNode]
  IN IF type = "function_declarator"
     THEN IF identifier = NoNode THEN break
          ELSE IF tree[identifier].type = "identifier"
          THEN [exit |-> TRUE, found |-> identifier, next |-> NoNode]
          ELSE [exit |-> FALSE, found |-> NoNode, next |-> identifier]
     ELSE IF type = "identifier"
     THEN [exit |-> TRUE, found |-> cur, next |-> NoNode]
     ELSE IF type \in {"pointer_declarator", "reference_declarator"}
     THEN LET n == IF identifier # NoNode THEN identifier
                   ELSE IF Len(c) >= 2 THEN c[2] ELSE NoNode
          IN [exit |-> n = NoNode, found |-> NoNode, next |-> n]
     ELSE break

\* parser.ts:113-127: the record of node is pushed when a name was found
pushRecord(node, nameNode) ==
  LET grammarName == GrammarOf(currentLanguageId)
  IN IF nameNode # NoNode /\ getFunctionBody(node, grammarName) # NoNode
     THEN /\ functions' =
               Append(functions,
                      [FunctionInfo(node, grammarName)
                         EXCEPT !.name = nameNode])
          /\ emitted' = Append(emitted, node)
     ELSE UNCHANGED <<functions, emitted>>

\* parser.ts:107-127, 160-173: findFunctions is called on node, below the
\* calls of stack. Under c and cpp a function node without an identifier
\* `name` field and with a `declarator` field enters the loop; any other
\* node is finished with at once.
visit(node, stack) ==
  LET grammarName == GrammarOf(currentLanguageId)
      isFunction == tree[node].type \in functionNodeTypes(grammarName)
      nameNode == childForFieldName(node, "name")
      declarator == childForFieldName(node, "declarator")
      loops == /\ isFunction
               /\ grammarName \in {"c", "cpp"}
               /\ ~(nameNode # NoNode /\ tree[nameNode].type = "identifier")
               /\ declarator # NoNode
  IN /\ visits' = Append(visits, node)
     /\ callStack' = Append(stack, [node |-> node, next |-> 1])
     /\ iterations' = 0
     /\ IF loops
        THEN /\ current' = declarator
             /\ UNCHANGED <<functions, emitted>>
        ELSE /\ current' = NoNode
             /\ pushRecord(node, IF isFunction
                                 THEN findFunctionName(node, grammarName)
                                 ELSE NoNode)

\* parser.ts:95-137: parseFunctions is called and calls findFunctions on
\* the root
StartWalk ==
  /\ parserObj /\ currentLanguageId # Null
  /\ ~parsed
  /\ visits = <<>>
  /\ visit(1, <<>>)
  /\ UNCHANGED <<tree, parsed, parseError, returned, parserVars, extVars,
                 decorVars>>

\* parser.ts:174-192, 219-226: one iteration of the loop; when it leaves
\* the loop without a node, the children of the function node are scanned
LoopIteration ==
  /\ current # NoNode
  /\ iterations < MaxIterations
  /\ LET step == declaratorStep(current)
         node == callStack[Len(callStack)].node
         fallback == firstChildOfType(node, {"identifier"})
     IN /\ iterations' = iterations + 1
        /\ current' = (IF step.exit THEN NoNode ELSE step.next)
        /\ IF step.exit
           THEN pushRecord(node, IF step.found # NoNode THEN step.found
                                 ELSE fallback)
           ELSE UNCHANGED <<functions, emitted>>
  /\ UNCHANGED <<callStack, visits, tree, parsed, parseError, returned,
                 parserVars, extVars, decorVars>>

\* parser.ts:131-133: findFunctions is called on the next child
Descend ==
  /\ current = NoNode
  /\ callStack # <<>>
  /\ LET top == callStack[Len(callStack)]
         c == children(top.node)
     IN /\ top.next <= Len(c)
        /\ visit(c[top.next],
                 [callStack EXCEPT ![Len(callStack)].next = @ + 1])
  /\ UNCHANGED <<tree, parsed, parseError, returned, parserVars, extVars,
                 decorVars>>

\* parser.ts:133-137: a call of findFunctions returns; when the call on the
\* root returns, parseFunctions returns the list
ReturnFromNode ==
  /\ current = NoNode
  /\ callStack # <<>>
  /\ LET top == callStack[Len(callStack)]
     IN top.next > Len(children(top.node))
  /\ callStack' = SubSeq(callStack, 1, Len(callStack) - 1)
  /\ IF Len(callStack) = 1
     THEN /\ parsed' = TRUE
          /\ returned' = Append(returned, <<currentLanguageId, functions>>)
     ELSE UNCHANGED <<parsed, returned>>
  /\ UNCHANGED <<visits, current, iterations, tree, functions, emitted,
                 parseError, parserVars, extVars, decorVars>>

\* the tree is complete before the walk starts
AddStepNode == visits = <<>> /\ AddNodeOf(StepKinds, MaxStepNodes, FALSE)

InitSteps ==
  /\ InitTree({k \in StepKinds : k[2] = ""}, {"c"}, 0)
  /\ tree # <<>>

WalkStep == StartWalk \/ LoopIteration \/ Descend \/ ReturnFromNode

NextSteps == AddStepNode \/ WalkStep

SpecSteps == InitSteps /\ [][NextSteps]_vars

\* ------------------------------------------------ the parser's lifecycle
\* language ids handed to setLanguage: two with a grammar, one without
LifecycleLanguages == {"c", "javascript", "plaintext"}

\* parser.ts:62-65: initialize runs to its end
Initialize ==
  /\ ~parserObj
  /\ parserObj' = TRUE
  /\ UNCHANGED <<languageCache, parserLanguage, currentLanguageId,
                 incompatible, languageSet, parseVars, extVars, decorVars>>

\* parser.ts:67-93: one awaited call of setLanguage, from the call to its
\* return or to the exception it ends in; Language.load resolves or rejects
SetLanguage ==
  /\ \E languageId \in LifecycleLanguages, loaded \in BOOLEAN :
       LET call == setLanguageCall(languageId)
           r == IF call.pc = "await"
                THEN setLanguageResume(languageId, loaded)
                ELSE call
       IN /\ languageCache' = r.languageCache
          /\ parserLanguage' = r.parserLanguage
          /\ currentLanguageId' = r.currentLanguageId
          /\ languageSet' = (languageSet \/ r.result = "true")
  /\ UNCHANGED <<parserObj, incompatible, parseVars, extVars, decorVars>>

\* a call of parseFunctions at any point of the parser's life
ParseFunctionsCall ==
  /\ Len(returned) < MaxCalls
  /\ parseFunctions

\* a fresh CppParser and a source text of one function, or one the parser
\* produces no tree for
InitLifecycle ==
  /\ \/ tree = << [type |-> "function_definition", field |-> "",
                    parent |-> NoNode, startRow |-> 0, endRow |-> 0],
                   [type |-> "identifier", field |-> "name",
                    parent |-> 1, startRow |-> 0, endRow |-> 0] >>
     \/ tree = <<>>
  /\ functions = <<>>
  /\ emitted = <<>>
  /\ parsed = FALSE
  /\ parseError = "none"
  /\ returned = <<>>
  /\ parserObj = FALSE
  /\ languageCache = {}
  /\ parserLanguage = Null
  /\ currentLanguageId = Null
  /\ languageSet = FALSE
  /\ incompatible \in SUBSET {"javascript"}
  /\ ExtIdle

NextLifecycle == Initialize \/ SetLanguage \/ ParseFunctionsCall

SpecLifecycle == InitLifecycle /\ [][NextLifecycle]_vars

\* ------------------------------------------------------ ColorCalculator
\* a colour string is the sequence of its characters
HexDigits ==
  <<"0", "1", "2", "3", "4", "5", "6", "7", "8", "9",
    "a", "b", "c", "d", "e", "f">>

UpperHexDigits == <<"A", "B", "C", "D", "E", "F">>

\* [a-f\d] under the flag i (part_003:47)
isHexDigit(ch) ==
  \/ \E i \in 1..16 : HexDigits[i] = ch
  \/ \E i \in 1..6 : UpperHexDigits[i] = ch

\* parseInt(ch, 16) of one hexadecimal digit
hexValue(ch) ==
  IF \E i \in 1..6 : UpperHexDigits[i] = ch
  THEN 9 + (CHOOSE i \in 1..6 : UpperHexDigits[i] = ch)
  ELSE (CHOOSE i \in 1..16 : HexDigits[i] = ch) - 1

NoRgb == [r |-> -1, g |-> -1, b |-> -1]

\* part_003:46-53
hexToRgb(hex) ==
  LET digits == IF hex # <<>> /\ hex[1] = "#" THEN Tail(hex) ELSE hex
  IN IF Len(digits) = 6 /\ \A i \in 1..6 : isHexDigit(digits[i])
     THEN [r |-> 16 * hexValue(digits[1]) + hexValue(digits[2]),
           g |-> 16 * hexValue(digits[3]) + hexValue(digits[4]),
           b |-> 16 * hexValue(digits[5]) + hexValue(digits[6])]
     ELSE NoRgb

\* toHex of part_003:59-62 on a whole number 0..255: toString(16), padded
\* to two digits
toHex(n) ==
  IF n < 16 THEN <<"0", HexDigits[n + 1]>>
  ELSE <<HexDigits[(n \div 16) + 1], HexDigits[(n % 16) + 1]>>

\* part_003:58-64
rgbToHex(rgb) == <<"#">> \o toHex(rgb.r) \o toHex(rgb.g) \o toHex(rgb.b)

\* part_003:16-41
colorPalette ==
  [dark |-> <<
     <<"#", "2", "d", "4", "a", "2", "c">>,
     <<"#", "4", "a", "3", "8", "2", "9">>,
     <<"#", "2", "c", "3", "e", "5", "0">>,
     <<"#", "4", "a", "3", "5", "4", "7">>,
     <<"#", "4", "a", "4", "5", "3", "2">>,
     <<"#", "2", "c", "4", "a", "4", "7">>,
     <<"#", "4", "a", "2", "f", "2", "f">>,
     <<"#", "3", "4", "4", "9", "5", "e">>,
     <<"#", "3", "d", "5", "a", "3", "d">>,
     <<"#", "3", "d", "2", "f", "5", "2">> >>,
   light |-> <<
     <<"#", "d", "4", "f", "1", "d", "4">>,
     <<"#", "f", "f", "e", "8", "c", "c">>,
     <<"#", "d", "4", "e", "4", "f", "7">>,
     <<"#", "f", "0", "d", "4", "f", "0">>,
     <<"#", "f", "e", "f", "8", "d", "4">>,
     <<"#", "d", "4", "f", "0", "f", "0">>,
     <<"#", "f", "f", "d", "4", "d", "4">>,
     <<"#", "e", "0", "e", "8", "f", "0">>,
     <<"#", "e", "8", "f", "4", "e", "8">>,
     <<"#", "e", "8", "d", "4", "f", "4">> >>]

\* Math.round(num / den) for num >= 0, den > 0
roundDiv(num, den) == (2 * num + den) \div (2 * den)

\* getBorderColor that modulates the palette colour by the function's
\* length, as calculateColor does (part_003:103-130)
getBorderColorAdjusted(functionIndex, lineCount, config, dark) ==
  LET palette == IF dark THEN colorPalette.dark ELSE colorPalette.light
      baseRgb == hexToRgb(palette[(functionIndex % Len(palette)) + 1])
      span == config.maxLines - config.minLines
      over == lineCount - config.minLines
      part == IF over < 0 THEN 0 ELSE IF over > span THEN span ELSE over
      up(c) == c + roundDiv((255 - c) * 15 * part, 100 * span)
      down(c) == c - roundDiv(c * 3 * part, 100 * span)
  IN IF baseRgb = NoRgb
     THEN IF dark THEN <<"#", "4", "a", "7", "c", "2", "f">>
          ELSE <<"#", "a", "5", "d", "6", "a", "7">>
     ELSE IF dark
     THEN rgbToHex([r |-> up(baseRgb.r), g |-> up(baseRgb.g),
                    b |-> up(baseRgb.b)])
     ELSE rgbToHex([r |-> down(baseRgb.r), g |-> down(baseRgb.g),
                    b |-> down(baseRgb.b)])

\* part_003:136-148
getBorderColor(functionIndex, lineCount, config, dark) ==
  LET palette == IF dark THEN colorPalette.dark ELSE colorPalette.light
      baseColor == palette[(functionIndex % Len(palette)) + 1]
      baseRgb == hexToRgb(baseColor)
  IN IF baseRgb = NoRgb
     THEN IF dark THEN <<"#", "4", "a", "7", "c", "2", "f">>
          ELSE <<"#", "a", "5", "d", "6", "a", "7">>
     ELSE rgbToHex(baseRgb)

\* ------------------------------------------------- the decoration loop
\* line numbers the records handed to the loop are made of
DecorLines == {0, 1, 99}

\* FunctionInfo records as parseFunctions returns them for a well-formed
\* tree: declarationLine <= startLine <= endLine
FuncRecords ==
  {[startLine |-> s, endLine |-> e, lineCount |-> e - s + 1,
    declarationLine |-> d] :
     <<d, s, e>> \in {t \in DecorLines \X DecorLines \X DecorLines :
                        t[1] <= t[2] /\ t[2] <= t[3]}}

\* colorConfig of extension.ts:361-365, and another one
ColorConfigs ==
  {[minLines |-> 5, maxLines |-> 100], [minLines |-> 1, maxLines |-> 3]}

\* extension.ts:370-374: the theme is read and the loop starts
StartDecorating ==
  /\ isDarkTheme' \in BOOLEAN
  /\ borderColors' = <<>>
  /\ lastDecorated' = NoFunction
  /\ UNCHANGED <<parseVars, parserVars, extVars>>

\* extension.ts:376-499: the loop body for the next function. The ranges
\* are whole lines, a range set on a decoration type is the set of its lines
DecorateFunction ==
  /\ Len(borderColors) < MaxFunctions
  /\ \E func \in FuncRecords, config \in ColorConfigs :
       LET index == Len(borderColors)
       IN /\ borderColors' =
               Append(borderColors,
                      getBorderColor(index, func.lineCount, config,
                                     isDarkTheme))
          /\ lastDecorated' =
               [index |-> index, func |-> func, config |-> config,
                gutterArrow |-> {func.declarationLine},
                gutterLine |-> (func.declarationLine + 1)..(func.endLine - 1),
                gutterLineEnd |-> {func.endLine}]
  /\ UNCHANGED <<isDarkTheme, parseVars, parserVars, extVars>>

InitDecorate == Init /\ incompatible = {}

NextDecorate == StartDecorating \/ DecorateFunction

SpecDecorate == InitDecorate /\ [][NextDecorate]_vars

\* ================================================================ claims
activeGrammar == GrammarOf(currentLanguageId)

isCandidate(n) == tree[n].type \in functionNodeTypes(activeGrammar)

\* every child's row span lies inside its parent's, start row <= end row
WellFormed ==
  \A n \in Nodes :
    /\ tree[n].startRow <= tree[n].endRow
    /\ tree[n].parent # NoNode =>
         /\ tree[tree[n].parent].startRow <= tree[n].startRow
         /\ tree[n].endRow <= tree[tree[n].parent].endRow

\* C1: every record returned by parseFunctions on a well-formed tree has
\* declarationLine <= startLine <= endLine and lineCount >= 1.
C1_RecordLinesOrdered ==
  (parsed /\ WellFormed) =>
    \A i \in 1..Len(functions) :
      /\ functions[i].declarationLine <= functions[i].startLine
      /\ functions[i].startLine <= functions[i].endLine
      /\ functions[i].lineCount >= 1

\* a record whose body starts below its declaration line, and a record
\* whose body is a single row
C1_Witness ==
  /\ parsed
  /\ \E i \in 1..Len(functions) :
       /\ functions[i].declarationLine < functions[i].startLine
       /\ functions[i].lineCount = 1

\* C2: a candidate node whose name no strategy resolves has no record in
\* the returned list, and no record carries a missing name.
C2_UnresolvedNameNoRecord ==
  parsed =>
    /\ \A n \in Nodes :
         (isCandidate(n) /\ findFunctionName(n, activeGrammar) = NoNode) =>
           \A i \in 1..Len(emitted) : emitted[i] # n
    /\ Len(functions) = Len(emitted)
    /\ \A i \in 1..Len(functions) : functions[i].name # NoNode

\* a parse that dropped an unresolved candidate and kept another one
C2_Witness ==
  /\ parsed
  /\ Len(functions) >= 1
  /\ \E n \in Nodes :
       isCandidate(n) /\ findFunctionName(n, activeGrammar) = NoNode

\* C3: every node of the tree whose type is a function node type and whose
\* name resolves yields exactly one record, wherever it is nested.
C3_EveryResolvedCandidateOnce ==
  parsed =>
    \A n \in Nodes :
      (isCandidate(n) /\ findFunctionName(n, activeGrammar) # NoNode) =>
        Cardinality({i \in 1..Len(emitted) : emitted[i] = n}) = 1

\* a record for a node below a dropped candidate, and a record for a node
\* below a candidate that has a record itself
C3_Witness ==
  /\ parsed
  /\ \E i \in 1..Len(emitted) : \E a \in Nodes :
       /\ isAncestor(a, emitted[i])
       /\ isCandidate(a)
       /\ findFunctionName(a, activeGrammar) = NoNode
  /\ \E i, j \in 1..Len(emitted) : isAncestor(emitted[i], emitted[j])

\* a is visited before b by a pre-order depth-first traversal: a is an
\* ancestor of b, or a lies in the subtree of an earlier sibling
inSubtree(x, n) == x = n \/ isAncestor(x, n)

preOrderBefore(a, b) ==
  \/ isAncestor(a, b)
  \/ \E x, y \in Nodes :
       /\ tree[x].parent = tree[y].parent
       /\ x < y
       /\ inSubtree(x, a)
       /\ inSubtree(y, b)

\* C4: the records are in pre-order depth-first order of their nodes.
C4_RecordsInPreOrder ==
  parsed =>
    \A i, j \in 1..Len(emitted) :
      i < j => preOrderBefore(emitted[i], emitted[j])

\* two records from the subtrees of different siblings
C4_Witness ==
  /\ parsed
  /\ \E i, j \in 1..Len(emitted) :
       /\ i < j
       /\ ~isAncestor(emitted[i], emitted[j])
       /\ ~isAncestor(emitted[j], emitted[i])

grammarOfDoc(d) == GrammarOf(DocLanguage[d])

\* the calls suspended at Language.load for grammar g
loadsInFlight(g) ==
  LET RECURSIVE sum(_)
      sum(d) == IF d = 0 THEN 0
                ELSE (IF grammarOfDoc(d) = g THEN loading[d] ELSE 0)
                     + sum(d - 1)
  IN sum(4)

\* the call whose `await parser.setLanguage` settled in this step
settledNow == microtasks'[Len(microtasks')]

\* C5: every parseFunctions call made by updateDecorations for a document
\* of language L runs with the grammar of L set on the parser and with a
\* currentLanguageId whose grammar is that of L.
C5_ParseUnderOwnLanguage ==
  lastParse # NoParse =>
    /\ lastParse.parserLanguage = grammarOfDoc(lastParse.document)
    /\ GrammarOf(lastParse.currentLanguageId) = grammarOfDoc(lastParse.document)

\* C6: the grammar set on the underlying parser is always the grammar that
\* LANGUAGE_GRAMMAR_MAP assigns to currentLanguageId (both unset at first).
C6_GrammarMatchesLanguageId ==
  parserLanguage = GrammarOf(currentLanguageId)

\* a language is set, a load has just failed and another call is still
\* suspended in its load
C6_Witness ==
  /\ currentLanguageId # Null
  /\ \E i \in 1..Len(microtasks) : microtasks[i].load = "failed"
  /\ \E d \in Docs : loading[d] > 0

\* C7: once a grammar is in the cache no setLanguage call starts a load of
\* it again, whether it is asked for under the same language id or under
\* another id mapped to the same grammar.
C7_NoLoadOnceCached ==
  [][\A d \in Docs :
       grammarOfDoc(d) \in languageCache => loading'[d] <= loading[d]]_vars

\* a javascriptreact call answered from the cache, with no load
C7_Witness ==
  /\ currentLanguageId = "javascriptreact"
  /\ \A d \in Docs : loading[d] = 0
  /\ \E i \in 1..Len(microtasks) :
       /\ DocLanguage[microtasks[i].document] = "javascriptreact"
       /\ microtasks[i].result = "true"
       /\ microtasks[i].load = "none"

\* C8: at no time are two loads of the same grammar in flight (first half
\* of the claim: overlapping calls load a grammar only once).
C8_OneLoadPerGrammar ==
  \A g \in DocGrammars : loadsInFlight(g) <= 1

\* C9: a setLanguage call with a language id outside LANGUAGE_GRAMMAR_MAP
\* returns false, starts no load and leaves the cache, the parser's grammar
\* and currentLanguageId as they were.
C9_UnknownLanguageChangesNothing ==
  [][(/\ Len(microtasks') = Len(microtasks) + 1
      /\ grammarOfDoc(settledNow.document) = Null)
     => /\ settledNow.result = "false"
        /\ settledNow.load = "none"
        /\ loading' = loading
        /\ languageCache' = languageCache
        /\ parserLanguage' = parserLanguage
        /\ currentLanguageId' = currentLanguageId]_vars

\* setLanguage has answered false for an unknown id while a language was set
C9_Witness ==
  /\ currentLanguageId # Null
  /\ languageCache # {}
  /\ \E i \in 1..Len(microtasks) :
       /\ grammarOfDoc(microtasks[i].document) = Null
       /\ microtasks[i].result = "false"

\* C10: when Language.load fails, setLanguage returns false, adds nothing
\* to the cache and leaves the parser's grammar and currentLanguageId as
\* they were.
C10_FailedLoadChangesNothing ==
  [][(/\ Len(microtasks') = Len(microtasks) + 1
      /\ settledNow.load = "failed")
     => /\ settledNow.result = "false"
        /\ languageCache' = languageCache
        /\ parserLanguage' = parserLanguage
        /\ currentLanguageId' = currentLanguageId]_vars

\* a load of a grammar other than the current one has failed
C10_Witness ==
  /\ currentLanguageId # Null
  /\ \E i \in 1..Len(microtasks) :
       /\ microtasks[i].load = "failed"
       /\ grammarOfDoc(microtasks[i].document) # GrammarOf(currentLanguageId)
       /\ grammarOfDoc(microtasks[i].document) \notin languageCache


\* C11: once a grammar load begun for the active editor's document has
\* failed, no later step that leaves that document in the active editor (an
\* edit, a refresh, a settings change) begins another load for it
C11_NoRetryAfterFailedLoad ==
  [][(loadFailed /\ activeEditor' = activeEditor) =>
       loading'[activeEditor] <= loading[activeEditor]]_vars

\* C12: a call of parseFunctions on a text the external parser produced no
\* tree for does not throw, and what it returns is the empty list
C12_NoTreeReturnsEmpty ==
  tree = <<>> =>
    /\ parseError = "none"
    /\ parsed => functions = <<>>

\* C13: no exception leaves updateDecorations: no call is resumed from
\* `await parser.setLanguage`, which stands before the try block, by an
\* exception of setLanguage, so the promise of no call rejects
C13_NoFailureEscapes ==
  \A i \in 1..Len(microtasks) : microtasks[i].result # "throw"

C15_RecordLinesFromBodyAndNode ==
  parsed =>
    \A i \in 1..Len(functions) :
      LET node == emitted[i]
          bodyNode == getFunctionBody(node, activeGrammar)
      IN /\ functions[i].startLine = tree[bodyNode].startRow
         /\ functions[i].endLine = tree[bodyNode].endRow
         /\ functions[i].declarationLine = tree[node].startRow
         /\ functions[i].lineCount =
              functions[i].endLine - functions[i].startLine + 1

\* a record whose body is a child that starts a row below the matched node
C15_Witness ==
  /\ parsed
  /\ \E i \in 1..Len(functions) :
       LET bodyNode == getFunctionBody(emitted[i], activeGrammar)
       IN /\ bodyNode # emitted[i]
          /\ tree[bodyNode].startRow > tree[emitted[i]].startRow
          /\ functions[i].declarationLine = tree[emitted[i]].startRow

\* the nearest class around a node, NoNode for a node in no class
RECURSIVE enclosingClass(_)
enclosingClass(n) ==
  LET p == tree[n].parent
  IN IF p = NoNode THEN NoNode
     ELSE IF tree[p].type = "class_declaration" THEN p
     ELSE enclosingClass(p)

\* C16: a method with a resolved name has exactly one record; the record of
\* a method inside a class carries as enclosing scope name the name of the
\* nearest class around it (not of a namespace further out), and the record
\* of a function in no class carries none
C16_RecordCarriesEnclosingClass ==
  parsed =>
    /\ \A n \in Nodes :
         (isCandidate(n) /\ findFunctionName(n, activeGrammar) # NoNode) =>
           Cardinality({i \in 1..Len(emitted) : emitted[i] = n}) = 1
    /\ \A i \in 1..Len(functions) :
         LET class == enclosingClass(emitted[i])
         IN funcClassName(functions[i]) =
              IF class = NoNode THEN NoNode
              ELSE childForFieldName(class, "name")

\* the grammars whose branch of findFunctionName returns the `name` field as
\* it is (parser.ts:194-217)
NameFieldGrammars ==
  {"python", "ruby", "java", "c_sharp", "rust", "go",
   "javascript", "typescript", "tsx"}

\* C17 as claimed: under every grammar, a record's name node that is the
\* `name` field of its function node has type identifier
C17_NameFieldOnlyIdentifier ==
  parsed =>
    \A i \in 1..Len(functions) :
      functions[i].name = childForFieldName(emitted[i], "name") =>
        tree[functions[i].name].type = "identifier"

\* C17 as amended: under a grammar outside NameFieldGrammars (c, cpp, php,
\* bash) every record's name node has type identifier; a `name` field of
\* another type is returned only under the grammars of NameFieldGrammars
C17_NameFieldOnlyIdentifierElsewhere ==
  parsed =>
    \A i \in 1..Len(functions) :
      tree[functions[i].name].type # "identifier" =>
        /\ activeGrammar \in NameFieldGrammars
        /\ functions[i].name = childForFieldName(emitted[i], "name")

\* under grammar c, a function node whose `name` field is no identifier and
\* whose record carries the identifier its declarator gives
C17_Witness ==
  /\ parsed
  /\ activeGrammar = "c"
  /\ \E i \in 1..Len(functions) :
       LET nameNode == childForFieldName(emitted[i], "name")
       IN /\ nameNode # NoNode
          /\ tree[nameNode].type # "identifier"
          /\ functions[i].name # nameNode

\* the declarator wrappers the claim C18 names
DeclaratorWrappers ==
  {"function_declarator", "pointer_declarator", "reference_declarator",
   "array_declarator"}

\* the identifier a chain of wrappers ends in, following the `declarator`
\* field from d; NoNode when the chain ends in anything else
RECURSIVE chainBase(_)
chainBase(d) ==
  IF d = NoNode THEN NoNode
  ELSE IF tree[d].type = "identifier" THEN d
  ELSE IF tree[d].type \in DeclaratorWrappers
  THEN chainBase(childForFieldName(d, "declarator"))
  ELSE NoNode

\* C18: under c and cpp, a function node whose `declarator` field starts a
\* chain of function, pointer, reference and array declarators ending in an
\* identifier has a record named by that identifier
C18_DeclaratorChainResolves ==
  parsed =>
    \A n \in Nodes :
      LET base == chainBase(childForFieldName(n, "declarator"))
      IN (isCandidate(n) /\ base # NoNode) =>
           \E i \in 1..Len(functions) :
             emitted[i] = n /\ functions[i].name = base

\* the child types the grammar's body resolution scans for (non-empty for
\* the JavaScript family only)
blockLikeTypes(grammarName) ==
  IF grammarName \in {"javascript", "typescript", "tsx"}
  THEN {"statement_block", "expression"} ELSE {}

\* the children of n under field `body`, and those of a block-like type
bodyFieldChildren(n) ==
  {c \in Nodes : tree[c].parent = n /\ tree[c].field = "body"}

blockLikeChildren(n) ==
  {c \in Nodes : tree[c].parent = n
                    /\ tree[c].type \in blockLikeTypes(activeGrammar)}

\* C19: the body resolved for a function node is its first child under the
\* field `body`; without one, its first child of a block-like or
\* expression-like type; without one, the node itself. It is always a node,
\* and a function node has a record exactly when its name resolves.
C19_BodyResolutionOrder ==
  /\ \A n \in Nodes :
       isCandidate(n) =>
         LET body == getFunctionBody(n, activeGrammar)
         IN /\ body \in Nodes
            /\ IF bodyFieldChildren(n) # {}
               THEN /\ body \in bodyFieldChildren(n)
                    /\ \A c \in bodyFieldChildren(n) : body <= c
               ELSE IF blockLikeChildren(n) # {}
               THEN /\ body \in blockLikeChildren(n)
                    /\ \A c \in blockLikeChildren(n) : body <= c
               ELSE body = n
  /\ parsed =>
       \A n \in Nodes :
         isCandidate(n) =>
           ((\E i \in 1..Len(emitted) : emitted[i] = n)
              <=> findFunctionName(n, activeGrammar) # NoNode)

\* parsed trees on which the order decides: a function node with a
\* block-like child before its `body` field, both present
C19_Witness ==
  /\ parsed
  /\ \E n \in Nodes :
       /\ isCandidate(n)
       /\ \E b \in bodyFieldChildren(n), c \in blockLikeChildren(n) : c < b

\* a step in which updateDecorations is called for the active editor's
\* document while its language id is in disabledLanguages
DisabledLanguageCall ==
  /\ Activate \/ ChangeActiveTextEditor \/ ChangeTextDocument
       \/ ChangeConfiguration
  /\ activated' = "yes"
  /\ activeEditor' # NoDoc
  /\ DocLanguage[activeEditor'] \in disabledLanguages'

\* C20: a call of updateDecorations for a document whose language id is in
\* disabledLanguages calls neither setLanguage nor parseFunctions (parser
\* state, grammar cache, pending loads and pending continuations stay as
\* they are), and when it returns the document has no live decoration,
\* cached or not
C20_DisabledLanguageUntouched ==
  [][DisabledLanguageCall =>
       /\ UNCHANGED <<parserLanguage, currentLanguageId, languageCache,
                      loading, microtasks, lastParse, parseVars>>
       /\ ~decorationCache'[activeEditor']
       /\ ~leaked']_vars

\* C21: within one theme the border colours of two functions of an update
\* are the same exactly when their indices are congruent modulo 10, and
\* the colour at an index is the one any line count and any colour
\* configuration get at that index
C21_ColourByIndexModuloTen ==
  /\ \A i, j \in 1..Len(borderColors) :
       borderColors[i] = borderColors[j] <=> (i - 1) % 10 = (j - 1) % 10
  /\ \A i \in 1..Len(borderColors) :
       \A func \in FuncRecords, config \in ColorConfigs :
         borderColors[i] =
           getBorderColor(i - 1, func.lineCount, config, isDarkTheme)

\* more functions than palette entries, the eleventh longer than the
\* first and coloured like it
C21_Witness ==
  /\ Len(borderColors) > 10
  /\ borderColors[11] = borderColors[1]
  /\ lastDecorated.index = 10
  /\ lastDecorated.func.lineCount = 100

\* C22: every line of a decorated function, from its declaration line to
\* its last line, is in the ranges of exactly one of the function's three
\* gutter decoration types (arrow, vertical line, ball end)
C22_OneGutterIconPerLine ==
  lastDecorated.index >= 0 =>
    \A l \in lastDecorated.func.declarationLine..lastDecorated.func.endLine :
      Cardinality({icon \in {"gutterArrow", "gutterLine", "gutterLineEnd"} :
                     l \in lastDecorated[icon]}) = 1

\* C23: under c and cpp a function node is dropped only when the `name`
\* field, the declarator chain and the scan for an identifier child all
\* fail: a function node with an identifier child has a record
C23_IdentifierChildResolves ==
  parsed =>
    \A n \in Nodes :
      (isCandidate(n) /\ firstChildOfType(n, {"identifier"}) # NoNode) =>
        \E i \in 1..Len(functions) : emitted[i] = n

\* C24: a call of parseFunctions throws 'Parser not initialized' exactly
\* when initialize has not completed or no setLanguage call has returned
\* true so far; and once a setLanguage call has returned true,
\* currentLanguageId is not null, whatever setLanguage calls fail later
C24_NotInitializedExactly ==
  [][/\ (parseError' # parseError \/ returned' # returned) =>
          (parseError' = "Parser not initialized"
             <=> (~parserObj \/ ~languageSet))
     /\ languageSet' => currentLanguageId' # Null]_vars

\* initialize has completed, a setLanguage call has loaded its grammar and
\* failed, none has succeeded, and parseFunctions threw the error
C24_Witness ==
  /\ parseError = "Parser not initialized"
  /\ parserObj
  /\ ~languageSet
  /\ languageCache # {}

\* C25: the active editor's document never has a decoration type that was
\* created, is not disposed and is in no entry of decorationCache
C25_NoUntrackedDecoration == ~leaked

\* C26: when a call of updateDecorations that went through setLanguage
\* finishes, the tree provider holds no list or the list of the document
\* the call was for
C26_ProviderShowsCallersDocument ==
  [][(microtasks # <<>> /\ microtasks' = Tail(microtasks)) =>
       providerDocument' \in {NoDoc, Head(microtasks).document}]_vars

\* C27: once deactivate has run, decorationCache has no entry, also after
\* the calls of updateDecorations that were suspended then have resumed
C27_EmptyCacheAfterDeactivate ==
  activated = "deactivated" => \A d \in Docs : ~decorationCache[d]

\* the nodes strictly below n
descendants(n) == {m \in Nodes : isAncestor(n, m)}

\* what is left of a call of parseFunctions: the nodes not visited yet
\* count most, then the calls of findFunctions to return from and the
\* nodes the declarator loop can still move to
walkRank ==
  (Len(tree) - Len(visits)) * (2 * Len(tree) + 2)
  + Len(callStack)
  + (IF current = NoNode THEN 0 ELSE 1 + Cardinality(descendants(current)))

\* C28: parseFunctions returns on every tree: findFunctions is never called
\* on a node it was called on before, every iteration of the declarator
\* loop leaves the loop or moves `current` to a strict descendant, every
\* step of the call makes what is left of it smaller, a call that has not
\* returned has a next step (an iteration of the loop, or a call of
\* findFunctions to go on with), and when it has returned every node was
\* visited once and the records are those of the walk
C28_ParseFunctionsTerminates ==
  /\ [][/\ Len(visits') > Len(visits) =>
             \A i \in 1..Len(visits) : visits[i] # visits'[Len(visits')]
        /\ iterations' = iterations + 1 =>
             (current' = NoNode \/ isAncestor(current, current'))
        /\ walkVars' # walkVars => walkRank' < walkRank]_vars
  /\ []((visits # <<>> /\ ~parsed) =>
         IF current # NoNode THEN iterations < MaxIterations
         ELSE callStack # <<>>)
  /\ [](walkRank >= 0)
  /\ [](parsed => /\ Len(visits) = Len(tree)
                  /\ emitted = findFunctions(1, activeGrammar))

\* the loop was entered on a pointer declarator that has no `declarator`
\* field and no second child, and has left it after one iteration
C28_Witness ==
  /\ current = NoNode
  /\ iterations = 1
  /\ callStack # <<>>
  /\ LET declarator ==
           childForFieldName(callStack[Len(callStack)].node, "declarator")
     IN /\ declarator # NoNode
        /\ tree[declarator].type = "pointer_declarator"
        /\ childForFieldName(declarator, "declarator") = NoNode
        /\ Len(children(declarator)) < 2

====
